---------------------------- MODULE Spec2Model ----------------------------
(***************************************************************************)
(* Model of video_transcoder.py: the command line front end (main), the    *)
(* precondition checks, the tree scan and the sequential transcode loop    *)
(* (find_and_transcode_videos), and the two classifiers (is_video_file,    *)
(* is_already_h264_mp4).                                                   *)
(*                                                                         *)
(* A path is a record [base, dir, name]: base is the folder the path is    *)
(* rooted in, dir the sequence of sub-directory names below it, and name   *)
(* the file name split at its dots (a.avi is <<"a", "avi">>, the hidden    *)
(* file .avi is <<"", "avi">>).  External processes and the file system    *)
(* are the environment: every outcome they can produce is chosen with \E.  *)
(***************************************************************************)
EXTENDS Integers, Sequences, FiniteSets, TLC

VARIABLES
    pc,               \* position of the single control thread
    argv,             \* sys.argv[1:], until main has read it
    output_folder,    \* main's local, then the parameter of the same name
    replace_original, \* main's local, then the parameter of the same name
    error,            \* the error message printed before an early return
    events,           \* precondition steps performed so far, in order
    version_probes,   \* number of 'ffmpeg -version' invocations
    rglob,            \* the entries folder.rglob('*') yields, in its order
    scanned,          \* how many of them the scan loop has consumed
    video_files,      \* the candidate list
    skipped,          \* paths reported as "Skipping (already H.264 MP4)"
    i,                \* index of the last candidate the loop has taken
    success_count,
    encodes,          \* the ffmpeg encode invocations performed, in order
    deleted,          \* input paths removed by unlink
    mkdirs,           \* directories passed to mkdir
    warnings,         \* "Could not remove original file" warnings printed
    summary,          \* the "Transcoding complete: s/t" line, once printed
    probed            \* the last stand-alone classification (SpecClassifier)

vars == <<pc, argv, output_folder, replace_original, error, events,
          version_probes, rglob, scanned, video_files, skipped, i,
          success_count, encodes, deleted, mkdirs, warnings, summary, probed>>

----------------------------------------------------------------------------
(* Bounds of the model. *)

\* Longest option list after the folder argument.
MaxOpts == 3
\* Most entries a scanned tree holds.
MaxFiles == 3

----------------------------------------------------------------------------
(* Strings and paths. *)

None == "<None>"
NoSummary == <<>>
NoProbe == [kind |-> "none"]

\* str.lower() on the strings the model uses.
Lower(s) ==
    CASE s = "AVI" -> "avi"
      [] s = "MP4" -> "mp4"
      [] s = "MKV" -> "mkv"
      [] s = "H264" -> "h264"
      [] s = "HEVC" -> "hevc"
      [] s = "Y" -> "y"
      [] s = "N" -> "n"
      [] OTHER -> s

\* Truth value of a str-or-None in a condition.
Truthy(s) == s # None /\ s # ""

\* PurePath.suffix: the part of the name from its last dot, when that dot is
\* neither the first nor the last character; "" otherwise.
Suffix(p) ==
    LET n == Len(p.name) IN
    IF n >= 2 /\ p.name[n] # "" /\ (n >= 3 \/ p.name[1] # "")
    THEN "." \o p.name[n]
    ELSE ""

\* PurePath.stem, as the dot-separated pieces of the name without its suffix.
Stem(p) ==
    IF Suffix(p) = "" THEN p.name ELSE SubSeq(p.name, 1, Len(p.name) - 1)

\* PurePath.with_suffix('.mp4')
with_suffix_mp4(p) == [p EXCEPT !.name = Stem(p) \o <<"mp4">>]

\* input_path.with_name(f"{input_path.stem}_h264.mp4")
with_name_h264(p) ==
    LET st == Stem(p)
        n == Len(st)
    IN  [p EXCEPT !.name = SubSeq(st, 1, n - 1) \o <<st[n] \o "_h264", "mp4">>]

\* Path.parent of a file path, as a directory [base, dir].
Parent(p) == [base |-> p.base, dir |-> p.dir]

----------------------------------------------------------------------------
(* The classifiers. *)

VIDEO_EXTENSIONS ==
    {".avi", ".mkv", ".mov", ".wmv", ".flv", ".webm", ".m4v",
     ".mpg", ".mpeg", ".3gp", ".asf", ".rm", ".rmvb", ".vob",
     ".ts", ".mts", ".m2ts", ".divx", ".xvid", ".ogv"}

LowerSuffix(p) ==
    LET n == Len(p.name) IN
    IF Suffix(p) = "" THEN "" ELSE "." \o Lower(p.name[n])

is_video_file_with_mp4(file_path) ==
    LowerSuffix(file_path) \in VIDEO_EXTENSIONS \cup {".mp4"}

is_video_file(file_path) == LowerSuffix(file_path) \in VIDEO_EXTENSIONS

\* Captured stdout is a sequence of tokens; whitespace tokens are " " and "\n".
Whitespace == {" ", "\n"}

RECURSIVE LStrip(_)
LStrip(s) ==
    IF s # <<>> /\ Head(s) \in Whitespace THEN LStrip(Tail(s)) ELSE s

RECURSIVE RStrip(_)
RStrip(s) ==
    IF s # <<>> /\ s[Len(s)] \in Whitespace
    THEN RStrip(SubSeq(s, 1, Len(s) - 1))
    ELSE s

\* result.stdout.strip().lower()
StripLower(s) ==
    LET t == RStrip(LStrip(s)) IN [k \in 1..Len(t) |-> Lower(t[k])]

\* What subprocess.run can do for the probe: return a completed process
\* (any exit code, any stdout), raise TimeoutExpired, or raise
\* FileNotFoundError when the executable is missing.
Stdouts ==
    {<<>>, <<"\n">>, <<"h264", "\n">>, <<"H264", "\n">>, <<" ", "h264">>,
     <<"hevc", "\n">>, <<"h264", "\n", "aac", "\n">>, <<"h264", "x">>}

ProbeOutcomes ==
    [kind : {"exit0", "nonzero"}, stdout : Stdouts]
    \cup {[kind |-> "timeout", stdout |-> <<>>],
          [kind |-> "missing", stdout |-> <<>>]}

\* is_already_h264_mp4: "True", "False", or "raise" when an exception leaves
\* the function.  TimeoutExpired is caught; FileNotFoundError is an OSError,
\* not a SubprocessError, and is not.
is_already_h264_mp4(file_path, outcome) ==
    IF LowerSuffix(file_path) # ".mp4" THEN "False"
    ELSE IF outcome.kind = "timeout" THEN "False"
    ELSE IF outcome.kind = "missing" THEN "raise"
    ELSE IF StripLower(outcome.stdout) = <<"h264">> THEN "True"
    ELSE "False"

----------------------------------------------------------------------------
(* The environment: command lines, and trees with the probe each file gets. *)

OptTokens == {"--output-folder", "--replace-original", "out", "videos", ""}

RECURSIVE SeqsUpTo(_, _)
SeqsUpTo(S, n) ==
    IF n = 0 THEN {<<>>}
    ELSE LET shorter == SeqsUpTo(S, n - 1) IN
         shorter \cup {Append(q, x) : q \in shorter, x \in S}

\* sys.argv[1:]: nothing, or a folder followed by up to MaxOpts option words.
Argvs == {<<>>} \cup {<<"videos">> \o opts : opts \in SeqsUpTo(OptTokens, MaxOpts)}

File(dir, name) == [base |-> "videos", dir |-> dir, name |-> name]

Reports(codec) == [kind |-> "exit0", stdout |-> <<codec, "\n">>]

\* The entries a scanned tree is made of: the path, whether it is a regular
\* file, and what the probe does when run on it.
Entries ==
    {[path |-> File(<<>>, <<"a", "avi">>), kind |-> "file", probe |-> Reports("mpeg4")],
     [path |-> File(<<>>, <<"a", "mkv">>), kind |-> "file", probe |-> Reports("hevc")],
     [path |-> File(<<>>, <<"e", "AVI">>), kind |-> "file", probe |-> Reports("mpeg4")],
     [path |-> File(<<"sub">>, <<"a", "avi">>), kind |-> "file", probe |-> Reports("mpeg4")],
     [path |-> File(<<>>, <<"b", "mp4">>), kind |-> "file", probe |-> Reports("h264")],
     [path |-> File(<<>>, <<"d", "mp4">>), kind |-> "file", probe |-> Reports("hevc")],
     [path |-> File(<<>>, <<"c", "txt">>), kind |-> "file", probe |-> Reports("")],
     [path |-> File(<<>>, <<"", "avi">>), kind |-> "file", probe |-> Reports("mpeg4")],
     [path |-> File(<<>>, <<"clips", "mov">>), kind |-> "dir", probe |-> Reports("")]}

\* folder.rglob('*'): the entries of the tree, each once, in some order.
Listings ==
    {l \in SeqsUpTo(Entries, MaxFiles) :
        \A j, k \in 1..Len(l) : j # k => l[j] # l[k]}

FolderStates == {"missing", "file", "dir"}
VersionOutcomes == {"exit0", "nonzero", "timeout", "missing"}
EncodeOutcomes == {"exit0", "nonzero", "timeout", "exception"}
Responses == {"y", "Y", "n", ""}

----------------------------------------------------------------------------
(* main *)

\* The while loop over sys.argv[2:]; k is the index into argv (argv[1] is
\* the folder).  ok is FALSE when the loop hits "Unknown argument".
RECURSIVE ParseArgs(_, _, _, _)
ParseArgs(a, k, of, ro) ==
    IF k > Len(a) THEN [ok |-> TRUE, output_folder |-> of, replace_original |-> ro]
    ELSE IF a[k] = "--output-folder" /\ k + 1 <= Len(a)
         THEN ParseArgs(a, k + 2, a[k + 1], ro)
    ELSE IF a[k] = "--replace-original" THEN ParseArgs(a, k + 1, of, TRUE)
    ELSE [ok |-> FALSE, output_folder |-> of, replace_original |-> ro]

\* if replace_original and output_folder
ConflictingOptions(ro, of) == ro /\ Truthy(of)

NextAfterConflictCheck_no_return(conflict, ro) ==
    IF ro THEN "confirm" ELSE "check_folder"

NextAfterConflictCheck_no_prompt(conflict, ro) ==
    IF conflict THEN "aborted" ELSE "check_folder"

\* Where main goes after the conflicting-options test: it returns on a
\* conflict, asks for confirmation when replacing, and otherwise calls
\* find_and_transcode_videos.
NextAfterConflictCheck(conflict, ro) ==
    IF conflict THEN "aborted"
    ELSE IF ro THEN "confirm"
    ELSE "check_folder"

\* main up to its first interaction: usage, option parsing, conflict test.
\* The command line is not looked at again afterwards.
main_parse ==
    /\ pc = "start"
    /\ IF Len(argv) < 1
       THEN /\ error' = "Usage"
            /\ pc' = "aborted"
            /\ UNCHANGED <<output_folder, replace_original, events>>
       ELSE LET r == ParseArgs(argv, 2, None, FALSE) IN
            /\ output_folder' = r.output_folder
            /\ replace_original' = r.replace_original
            /\ IF ~r.ok
               THEN /\ error' = "UnknownArgument"
                    /\ pc' = "aborted"
                    /\ UNCHANGED events
               ELSE LET conflict == ConflictingOptions(r.replace_original,
                                                       r.output_folder) IN
                    /\ error' = IF conflict THEN "ConflictingOptions" ELSE error
                    /\ events' = Append(events, "conflict_check")
                    /\ pc' = NextAfterConflictCheck(conflict, r.replace_original)
    /\ argv' = <<>>
    /\ UNCHANGED <<version_probes, rglob, scanned, video_files, skipped, i,
                   success_count, encodes, deleted, mkdirs, warnings, summary,
                   probed>>

\* response = input(...); if response.lower() != 'y': return
main_confirm ==
    /\ pc = "confirm"
    /\ \E response \in Responses :
         /\ events' = Append(events, "prompt")
         /\ IF Lower(response) # "y"
            THEN error' = "Cancelled" /\ pc' = "aborted"
            ELSE error' = error /\ pc' = "check_folder"
    /\ UNCHANGED <<argv, output_folder, replace_original, version_probes, rglob,
                   scanned, video_files, skipped, i, success_count, encodes,
                   deleted, mkdirs, warnings, summary, probed>>

----------------------------------------------------------------------------
(* find_and_transcode_videos *)

\* folder.exists() and folder.is_dir()
check_folder ==
    /\ pc = "check_folder"
    /\ \E st \in FolderStates :
         /\ events' = Append(events, "folder_check")
         /\ IF st = "missing" THEN error' = "NotFound" /\ pc' = "aborted"
            ELSE IF st = "file" THEN error' = "NotADirectory" /\ pc' = "aborted"
            ELSE error' = error /\ pc' = "check_ffmpeg"
    /\ UNCHANGED <<argv, output_folder, replace_original, version_probes, rglob,
                   scanned, video_files, skipped, i, success_count, encodes,
                   deleted, mkdirs, warnings, summary, probed>>

\* subprocess.run(['ffmpeg', '-version'], ...): TimeoutExpired and
\* FileNotFoundError are caught; the exit code is not looked at.
FfmpegAvailable(outcome) == outcome \notin {"timeout", "missing"}

check_ffmpeg ==
    /\ pc = "check_ffmpeg"
    /\ \E outcome \in VersionOutcomes :
         /\ events' = Append(events, "version_probe")
         /\ version_probes' = version_probes + 1
         /\ IF FfmpegAvailable(outcome)
            THEN error' = error /\ pc' = "scan_start"
            ELSE error' = "ToolNotFound" /\ pc' = "aborted"
    /\ UNCHANGED <<argv, output_folder, replace_original, rglob, scanned,
                   video_files, skipped, i, success_count, encodes, deleted,
                   mkdirs, warnings, summary, probed>>

\* folder.rglob('*') starts: the tree is whatever the file system holds.
scan_start ==
    /\ pc = "scan_start"
    /\ \E l \in Listings : rglob' = l
    /\ events' = Append(events, "scan")
    /\ pc' = "scan"
    /\ UNCHANGED <<argv, output_folder, replace_original, error, version_probes,
                   scanned, video_files, skipped, i, success_count, encodes,
                   deleted, mkdirs, warnings, summary, probed>>

\* One iteration of the scan loop.
scan_step ==
    /\ pc = "scan"
    /\ scanned < Len(rglob)
    /\ LET e == rglob[scanned + 1]
           video == e.kind = "file" /\ is_video_file(e.path)
           already == IF video THEN is_already_h264_mp4(e.path, e.probe) ELSE "n/a"
       IN  /\ scanned' = scanned + 1
           /\ video_files' = IF already = "False"
                             THEN Append(video_files, e.path) ELSE video_files
           /\ skipped' = IF already = "True"
                         THEN Append(skipped, e.path) ELSE skipped
           /\ pc' = IF already = "raise" THEN "crashed" ELSE "scan"
    /\ UNCHANGED <<argv, output_folder, replace_original, error, events,
                   version_probes, rglob, i, success_count, encodes, deleted,
                   mkdirs, warnings, summary, probed>>

\* The scan loop is over: "No videos found" and return, or list and go on.
scan_end ==
    /\ pc = "scan"
    /\ scanned = Len(rglob)
    /\ pc' = IF video_files = <<>> THEN "done" ELSE "drive"
    /\ UNCHANGED <<argv, output_folder, replace_original, error, events,
                   version_probes, rglob, scanned, video_files, skipped, i,
                   success_count, encodes, deleted, mkdirs, warnings, summary,
                   probed>>

ComputeOutputPath_keep_suffix(input_path, of, ro) ==
    IF Truthy(of) THEN [input_path EXCEPT !.base = of]
    ELSE IF ro THEN with_suffix_mp4(input_path)
    ELSE with_name_h264(input_path)

\* "Determine output path": output_dir / rel_path.with_suffix('.mp4'),
\* input_path.with_suffix('.mp4'), or <stem>_h264.mp4 beside the input.
ComputeOutputPath(input_path, of, ro) ==
    IF Truthy(of) THEN [with_suffix_mp4(input_path) EXCEPT !.base = of]
    ELSE IF ro THEN with_suffix_mp4(input_path)
    ELSE with_name_h264(input_path)

transcode_video_uncaught(outcome) ==
    IF outcome = "exit0" THEN "True"
    ELSE IF outcome = "exception" THEN "raise"
    ELSE "False"

transcode_video_any_exit(outcome) ==
    IF outcome \in {"exit0", "nonzero"} THEN "True" ELSE "False"

\* transcode_video: True on exit code 0; a non-zero exit, TimeoutExpired and
\* every other Exception give False.
transcode_video(outcome) ==
    IF outcome = "exit0" THEN "True" ELSE "False"

RemovesOriginal_unconditional(ok, ro, input_path, output_path) ==
    ro /\ input_path # output_path

\* The original is unlinked inside "if transcode_video(...)", when
\* replace_original and input_path != output_path.
RemovesOriginal(ok, ro, input_path, output_path) ==
    ok /\ ro /\ input_path # output_path

\* One iteration of the transcode loop.
transcode_step ==
    /\ pc = "drive"
    /\ i < Len(video_files)
    /\ \E outcome \in EncodeOutcomes, unlink_ok \in BOOLEAN :
         LET input_path == video_files[i + 1]
             output_path == ComputeOutputPath(input_path, output_folder,
                                              replace_original)
             r == transcode_video(outcome)
             remove == RemovesOriginal(r = "True", replace_original,
                                       input_path, output_path)
         IN  /\ i' = i + 1
             /\ mkdirs' = IF Truthy(output_folder)
                          THEN mkdirs \cup {[base |-> output_folder, dir |-> <<>>],
                                            Parent(output_path)}
                          ELSE mkdirs
             /\ encodes' = Append(encodes, [input |-> input_path,
                                            output |-> output_path,
                                            outcome |-> outcome])
             /\ success_count' = IF r = "True" THEN success_count + 1
                                 ELSE success_count
             /\ deleted' = IF remove /\ unlink_ok THEN deleted \cup {input_path}
                           ELSE deleted
             /\ warnings' = IF remove /\ ~unlink_ok THEN warnings + 1 ELSE warnings
             /\ pc' = IF r = "raise" THEN "crashed" ELSE "drive"
    /\ UNCHANGED <<argv, output_folder, replace_original, error, events,
                   version_probes, rglob, scanned, video_files, skipped, summary,
                   probed>>

\* print(f"Transcoding complete: {success_count}/{len(video_files)} successful")
finish ==
    /\ pc = "drive"
    /\ i = Len(video_files)
    /\ summary' = <<success_count, Len(video_files)>>
    /\ pc' = "done"
    /\ UNCHANGED <<argv, output_folder, replace_original, error, events,
                   version_probes, rglob, scanned, video_files, skipped, i,
                   success_count, encodes, deleted, mkdirs, warnings, probed>>

----------------------------------------------------------------------------
(* The run. *)

Idle ==
    /\ output_folder = None
    /\ replace_original = FALSE
    /\ error = "none"
    /\ events = <<>>
    /\ version_probes = 0
    /\ rglob = <<>>
    /\ scanned = 0
    /\ video_files = <<>>
    /\ skipped = <<>>
    /\ i = 0
    /\ success_count = 0
    /\ encodes = <<>>
    /\ deleted = {}
    /\ mkdirs = {}
    /\ warnings = 0
    /\ summary = NoSummary
    /\ probed = NoProbe

Init ==
    /\ pc = "start"
    /\ argv \in Argvs
    /\ Idle

Next ==
    \/ main_parse
    \/ main_confirm
    \/ check_folder
    \/ check_ffmpeg
    \/ scan_start
    \/ scan_step
    \/ scan_end
    \/ transcode_step
    \/ finish

Spec == Init /\ [][Next]_vars

----------------------------------------------------------------------------
(* The classifiers on their own: any path, any probe outcome. *)

ClassifierPaths == {e.path : e \in Entries} \cup {File(<<>>, <<"g", "MP4">>)}

classify ==
    /\ pc = "classify"
    /\ \E p \in ClassifierPaths, o \in ProbeOutcomes :
         probed' = [kind |-> "call", path |-> p, outcome |-> o,
                    video |-> is_video_file(p),
                    result |-> is_already_h264_mp4(p, o)]
    /\ UNCHANGED <<pc, argv, output_folder, replace_original, error, events,
                   version_probes, rglob, scanned, video_files, skipped, i,
                   success_count, encodes, deleted, mkdirs, warnings, summary>>

InitClassifier ==
    /\ pc = "classify"
    /\ argv = <<>>
    /\ Idle

NextClassifier == classify

SpecClassifier == InitClassifier /\ [][NextClassifier]_vars

----------------------------------------------------------------------------
(* Properties. *)

RECURSIVE SeqToSet(_)
SeqToSet(s) == IF s = <<>> THEN {} ELSE {Head(s)} \cup SeqToSet(Tail(s))

Inputs == [k \in 1..Len(encodes) |-> encodes[k].input]

Successes == {k \in 1..Len(encodes) : encodes[k].outcome = "exit0"}

ScanDone == pc \in {"drive", "done"}

ProbeReportsH264(outcome) ==
    outcome.kind = "exit0" /\ StripLower(outcome.stdout) = <<"h264">>

\* C1: once the scan is over, a regular file with an unrecognized extension
\* is neither candidate nor skipped; a recognized one (.mp4 included) is
\* skipped and not a candidate iff it is an .mp4 whose probe reports h264,
\* and is a candidate otherwise.
C1_ScanPartition ==
    ScanDone =>
        \A k \in 1..Len(rglob) :
            LET e == rglob[k]
                cand == e.path \in SeqToSet(video_files)
                skip == e.path \in SeqToSet(skipped)
                recognized == LowerSuffix(e.path) \in VIDEO_EXTENSIONS \cup {".mp4"}
                h264mp4 == LowerSuffix(e.path) = ".mp4" /\ ProbeReportsH264(e.probe)
            IN  e.kind = "file" =>
                    IF ~recognized THEN ~cand /\ ~skip
                    ELSE IF h264mp4 THEN skip /\ ~cand
                    ELSE cand /\ ~skip

\* C2: for an .mp4 path is_already_h264_mp4 never raises, returns False on
\* every probe failure (timeout, non-zero exit, tool missing, malformed or
\* empty output), and returns True only when the probe completes and reports
\* h264.
C2_ProbeFailureIsFalse ==
    (probed.kind = "call" /\ LowerSuffix(probed.path) = ".mp4") =>
        /\ probed.result # "raise"
        /\ probed.outcome.kind # "exit0" => probed.result = "False"
        /\ probed.result = "True" <=> ProbeReportsH264(probed.outcome)

C4_AbortTouchesNothing ==
    (pc = "aborted" \/ error # "none") =>
        /\ pc = "aborted"
        /\ error \in {"Usage", "UnknownArgument", "ConflictingOptions",
                      "Cancelled", "NotFound", "NotADirectory", "ToolNotFound"}
        /\ encodes = <<>>
        /\ deleted = {}
        /\ mkdirs = {}
        /\ video_files = <<>>
        /\ error = "ConflictingOptions" => version_probes = 0

C4_Witness ==
    /\ pc = "aborted"
    /\ error = "ConflictingOptions"
    /\ replace_original
    /\ output_folder = "out"

\* C5: a deleted input was encoded with exit code 0 under replace_original
\* (and no output folder) to an output path other than itself; an input
\* whose encode failed is never deleted.
C5_DeleteOnlyAfterSuccessfulReplace ==
    /\ \A p \in deleted :
          /\ replace_original
          /\ ~Truthy(output_folder)
          /\ \E k \in 1..Len(encodes) :
                /\ encodes[k].input = p
                /\ encodes[k].outcome = "exit0"
                /\ encodes[k].output # p
    /\ \A k \in 1..Len(encodes) :
          encodes[k].outcome # "exit0" => encodes[k].input \notin deleted

C5_Witness ==
    /\ deleted # {}
    /\ \E k \in 1..Len(encodes) : encodes[k].outcome # "exit0"
    /\ \E k \in 1..Len(encodes) :
          encodes[k].outcome = "exit0" /\ encodes[k].input \notin deleted

\* C6: success_count is the number of encodes that exited with code 0,
\* between 0 and the number of candidates processed, whatever unlink did;
\* the summary is printed after the whole list and reads
\* <<that number, number of candidates>>.
C6_SummaryCounts ==
    /\ success_count = Cardinality(Successes)
    /\ 0 <= success_count /\ success_count <= i
    /\ summary # NoSummary =>
          /\ Len(encodes) = Len(video_files)
          /\ summary = <<Cardinality(Successes), Len(video_files)>>

C6_Witness ==
    /\ summary # NoSummary
    /\ warnings >= 1
    /\ summary[1] = 2
    /\ summary[2] = 3

\* C7: every output path handed to the encoder is, with an output folder,
\* that folder plus the input's directory below the root and the input's
\* name with its extension replaced by lowercase mp4; with replace_original
\* the input path with its extension replaced by mp4; otherwise
\* <stem>_h264.mp4 in the input's directory.
C7_OutputPath ==
    \A k \in 1..Len(encodes) :
        LET in == encodes[k].input
            out == encodes[k].output
            n == Len(in.name)
        IN  /\ out.dir = in.dir
            /\ Len(out.name) = n
            /\ out.name[n] = "mp4"
            /\ \A j \in 1..(n - 2) : out.name[j] = in.name[j]
            /\ IF Truthy(output_folder)
               THEN out.base = output_folder /\ out.name[n - 1] = in.name[n - 1]
               ELSE IF replace_original
               THEN out.base = in.base /\ out.name[n - 1] = in.name[n - 1]
               ELSE out.base = in.base
                    /\ out.name[n - 1] = in.name[n - 1] \o "_h264"

C7_Witness ==
    /\ output_folder = "out"
    /\ \E k \in 1..Len(encodes) :
          /\ encodes[k].input.name = <<"e", "AVI">>
          /\ encodes[k].output = [base |-> "out", dir |-> <<>>, name |-> <<"e", "mp4">>]
    /\ \E k \in 1..Len(encodes) :
          /\ encodes[k].input.dir = <<"sub">>
          /\ encodes[k].output = [base |-> "out", dir |-> <<"sub">>,
                                  name |-> <<"a", "mp4">>]

Before(a, b) ==
    \A k \in 1..Len(events) :
        events[k] = b => \E j \in 1..(k - 1) : events[j] = a

\* C8 as stated: the confirmation prompt comes only after the ffmpeg version
\* probe, so a run that ends with "FFmpeg not found" never prompted.
C8_PromptAfterVersionProbe ==
    /\ Before("conflict_check", "version_probe")
    /\ Before("version_probe", "prompt")
    /\ Before("prompt", "scan") \/ ~replace_original
    /\ error = "ToolNotFound" => \A k \in 1..Len(events) : events[k] # "prompt"

PreconditionOrder(ro) ==
    IF ro
    THEN <<"conflict_check", "prompt", "folder_check", "version_probe", "scan">>
    ELSE <<"conflict_check", "folder_check", "version_probe", "scan">>

\* C8 amended: the steps run in the order conflicting-options test, then
\* (exactly when replace_original is set) the confirmation prompt, then the
\* folder checks, then the ffmpeg version probe, then the scan; so a
\* replace_original run that ends with "FFmpeg not found" has prompted.
C8_PromptBeforeVersionProbe ==
    /\ Len(events) <= Len(PreconditionOrder(replace_original))
    /\ events = SubSeq(PreconditionOrder(replace_original), 1, Len(events))
    /\ (error = "ToolNotFound" /\ replace_original) =>
          \E k \in 1..Len(events) : events[k] = "prompt"

C8_Witness ==
    /\ error = "ToolNotFound"
    /\ replace_original
    /\ events = <<"conflict_check", "prompt", "folder_check", "version_probe">>

\* C9: no two encoder invocations of a run write the same output path.
C9_DistinctOutputs ==
    \A j, k \in 1..Len(encodes) :
        j # k => encodes[j].output # encodes[k].output

\* C10: no output path handed to the encoder is its own input or the path
\* of any candidate: outputs end in .mp4 and no candidate's suffix
\* lowercases to .mp4.
C10_OutputNeverAnInput ==
    /\ \A m \in 1..Len(video_files) : LowerSuffix(video_files[m]) # ".mp4"
    /\ \A k \in 1..Len(encodes) :
          /\ encodes[k].output # encodes[k].input
          /\ Suffix(encodes[k].output) = ".mp4"
          /\ \A m \in 1..Len(video_files) : encodes[k].output # video_files[m]

C10_Witness ==
    /\ pc = "done"
    /\ output_folder = "videos"
    /\ Len(encodes) = 3
    /\ \E k \in 1..3 : encodes[k].input.name = <<"e", "AVI">>

=============================================================================
